---- MODULE Spec2Model ----
(***************************************************************************)
(* Model of src/git/ignore.rs: parsing of .gitignore lines into rules,     *)
(* the arena of parsed files owned by GitIgnorer, the construction of      *)
(* GitIgnoreChain values (root_chain, deeper_chain) and the accepts query. *)
(*                                                                         *)
(* Text is modelled as a sequence of one-character strings.  A directory   *)
(* is the sequence of its component names, <<>> being the filesystem root. *)
(* An Option<T> is a sequence of length 0 (None, Err) or 1 (Some, Ok).     *)
(***************************************************************************)
EXTENDS Integers, Sequences, FiniteSets, TLC

\* ------------------------------------------------------------------ bounds
\* number of chain constructions (root_chain, deeper_chain) in one behaviour
MaxOps == 2
\* number of lines of a rule file in the line-level specification
MaxLines == 2

\* ------------------------------------------------------------------ text
None == <<>>
Some(x) == <<x>>

Max(S) == CHOOSE x \in S : \A y \in S : y <= x
Min(S) == CHOOSE x \in S : \A y \in S : x <= y

Contains(s, c) == \E i \in 1..Len(s) : s[i] = c
AllSpace(s) == \A i \in 1..Len(s) : s[i] = " "
Drop(s, n) == SubSeq(s, n + 1, Len(s))
Reverse(s) == [i \in 1..Len(s) |-> s[Len(s) + 1 - i]]

\* Path::parent
Parent(dir) == IF dir = <<>> THEN None ELSE Some(SubSeq(dir, 1, Len(dir) - 1))

\* the text of an absolute path: "/" for the root, "/a/b" for <<"a", "b">>
RECURSIVE PathText(_)
PathText(segs) ==
    IF segs = <<>> THEN <<>> ELSE <<"/">> \o <<segs[1]>> \o PathText(Tail(segs))

ToStringLossy(dir) == IF dir = <<>> THEN <<"/">> ELSE PathText(dir)

\* ------------------------------------------------------------------ glob
\* glob::Pattern::new on the characters of the model (literals, '*', '/'):
\* a pattern is a sequence of tokens, a literal character, "*" (AnySequence)
\* or "**" (AnyRecursiveSequence); a run of three stars or a "**" that is
\* not a whole path component is an error.
StarRun(chars, i) ==
    Max({n \in 1..(Len(chars) - i + 1) : \A k \in i..(i + n - 1) : chars[k] = "*"})

PushRecursive(tokens) ==
    IF Len(tokens) > 1 /\ tokens[Len(tokens)] = "**" THEN tokens ELSE Append(tokens, "**")

RECURSIVE Tokens(_, _, _)
Tokens(chars, i, tokens) ==
    IF i > Len(chars) THEN Some(tokens)
    ELSE IF chars[i] # "*" THEN Tokens(chars, i + 1, Append(tokens, chars[i]))
    ELSE LET count == StarRun(chars, i)
             j == i + count
         IN IF count > 2 THEN None
            ELSE IF count = 2 THEN
                IF i = 1 \/ chars[i - 1] = "/" THEN
                    IF j <= Len(chars) /\ chars[j] = "/"
                        THEN Tokens(chars, j + 1, PushRecursive(tokens))
                    ELSE IF j > Len(chars)
                        THEN Tokens(chars, j, PushRecursive(tokens))
                    ELSE None
                ELSE None
            ELSE Tokens(chars, j, Append(tokens, "*"))

PatternNew(p) == Tokens(p, 1, <<>>)

\* glob::Pattern::matches_with: the tokens from i on match the text from j on.
\* "*" takes any run of characters, without a separator when the options
\* require a literal separator; "**" takes nothing or a run ending in one.
RECURSIVE MatchesFrom(_, _, _, _, _)
MatchesFrom(tokens, i, text, j, options) ==
    IF i > Len(tokens) THEN j > Len(text)
    ELSE IF tokens[i] = "*" THEN
        \/ MatchesFrom(tokens, i + 1, text, j, options)
        \/ \E n \in j..Len(text) :
            /\ options.require_literal_separator
                  => \A k \in j..n : text[k] # "/"
            /\ MatchesFrom(tokens, i + 1, text, n + 1, options)
    ELSE IF tokens[i] = "**" THEN
        \/ MatchesFrom(tokens, i + 1, text, j, options)
        \/ \E n \in j..Len(text) :
            /\ text[n] = "/"
            /\ MatchesFrom(tokens, i + 1, text, n + 1, options)
    ELSE /\ j <= Len(text)
         /\ text[j] = tokens[i]
         /\ MatchesFrom(tokens, i + 1, text, j + 1, options)

MatchesWith(pattern, text, options) == MatchesFrom(pattern, 1, text, 1, options)

\* matches_path_with: the path as text
MatchesPathWith(pattern, path, options) == MatchesWith(pattern, PathText(path), options)

\* ------------------------------------------------------------------ rule
\* the regular expression ^\s*(!)?(.+?)(/)?\s*$ of GitIgnoreRule::from

\* what may follow the pattern group: (/)?\s*$
TailOk(t) == AllSpace(t) \/ (Len(t) >= 1 /\ t[1] = "/" /\ AllSpace(Drop(t, 1)))

LeadingSpaces(line) ==
    Max({k \in 0..Len(line) : \A i \in 1..k : line[i] = " "})

\* the length of the lazy group 2 when k leading blanks are taken and the
\* negation group is taken (neg) or not; 0 when there is no match that way
BodyLen(line, k, neg) ==
    IF neg /\ ~(k + 1 <= Len(line) /\ line[k + 1] = "!") THEN 0
    ELSE IF Len(line) < k + (IF neg THEN 2 ELSE 1) THEN 0
    ELSE Min({n \in 1..(Len(line) - k - (IF neg THEN 1 ELSE 0)) :
                 TailOk(Drop(line, k + (IF neg THEN 1 ELSE 0) + n))})

\* groups 1, 2 and 3 for a pattern of n characters starting at start
Groups(line, neg, start, n) ==
    [negation |-> neg,
     pattern |-> SubSeq(line, start, start + n - 1),
     directory |-> (Len(line) >= start + n /\ line[start + n] = "/")]

\* the captures with k leading blanks taken: the negation is greedy
CapturesAt(line, k) ==
    IF BodyLen(line, k, TRUE) > 0
        THEN Groups(line, TRUE, k + 2, BodyLen(line, k, TRUE))
        ELSE Groups(line, FALSE, k + 1, BodyLen(line, k, FALSE))

\* the numbers of leading blanks with which the expression matches
BlankChoices(line) ==
    {k \in 0..LeadingSpaces(line) :
        BodyLen(line, k, TRUE) > 0 \/ BodyLen(line, k, FALSE) > 0}

\* r.captures(line): the blanks are greedy, the pattern is lazy
Captures(line) ==
    IF BlankChoices(line) = {} THEN None
    ELSE Some(CapturesAt(line, Max(BlankChoices(line))))

\* the rule built from the compiled pattern, when it compiled
RuleOf(c, has_separator, pattern) ==
    IF pattern = None THEN None
    ELSE Some([ok |-> c.negation,
               pattern |-> pattern[1],
               directory |-> c.directory,
               filename |-> ~has_separator,
               pattern_options |->
                   [case_sensitive |-> TRUE,
                    require_literal_leading_dot |-> FALSE,
                    require_literal_separator |-> has_separator]])

\* the pattern text: anchored patterns are prefixed with ref_dir
Anchored(p, has_separator, ref_dir) ==
    IF has_separator /\ p[1] = "/" THEN ToStringLossy(ref_dir) \o p ELSE p

FromCaptures(c, has_separator, ref_dir) ==
    RuleOf(c, has_separator, PatternNew(Anchored(c.pattern, has_separator, ref_dir)))

\* GitIgnoreRule::from
From(line, ref_dir) ==
    IF Len(line) >= 1 /\ line[1] = "#" THEN None
    ELSE IF Captures(line) = None THEN None
    ELSE FromCaptures(Captures(line)[1], Contains(Captures(line)[1].pattern, "/"), ref_dir)

\* ------------------------------------------------------------------ world
\* the directories of the model: the filesystem root, /a and /a/b
Dirs == {<<>>, <<"a">>, <<"a", "b">>}
Names == {"a", "b"}

\* the paths a query may name: one to three components
Paths == UNION {[1..n -> Names] : n \in 1..3}

\* Path::file_name, as text (a name is one character)
FileName(path) == <<path[Len(path)]>>

\* dir.join(".gitignore")
Join(dir, name) == Append(dir, name)
IgnoreFilePath(dir) == Join(dir, ".gitignore")
\* the file find_global_ignore designates, when it designates one
GlobalIgnoreFile == <<"~", ".config", "git", "ignore">>
FilePaths == {IgnoreFilePath(d) : d \in Dirs} \cup {GlobalIgnoreFile}

\* an item of BufReader::lines that is an Err
ReadErr == <<"Err">>

\* the lines rule files are made of in the line-level specification
Lines == {
    <<"a">>, <<"!", "a">>, <<"a", "/">>, <<"!", "a", "/">>, <<"/", "a">>, <<"*">> }

\* the rule files of the chain-level specification: a file that cannot be
\* opened, one whose second line cannot be read, and two files that list
\* different numbers of rules and disagree on the name "a" (the longer one has
\* a comment, a line that is no glob pattern and a line with blanks)
SampleFiles == {
    None,
    Some(<<<<"!", "a">>, ReadErr>>),
    Some(<<<<"a">>>>),
    Some(<<<<"#", "a">>, <<"*", "*", "*">>, <<" ", "a", " ">>, <<"!", "a">>>>) }

SampleGlobals == { None, Some(<<<<"a">>>>) }

VARIABLES
    repos,           \* the directories that contain a .git entry
    fs,              \* file path -> None (cannot be opened) or Some(items)
    GLOBAL_GI_PATH,  \* the lazy static of GitIgnoreFile::global
    files,           \* GitIgnorer.files: the arena, an Id is an index into it
    origin,          \* ghost: for each arena entry, the file and ref_dir it was parsed from
    reads,           \* ghost: file path -> number of File::open calls on it
    last,            \* the last chain construction: its arguments, its result and
                     \* (ghost) the arena length and the read counts before it
    query,           \* the last accepts call since then: its arguments and its result
    ops,             \* number of chain constructions so far
    returned         \* ghost: every chain a construction returned, with the arena
                     \* entries its handles designated when it was returned

vars == <<repos, fs, GLOBAL_GI_PATH, files, origin, reads, last, query, ops, returned>>
env == <<repos, fs, GLOBAL_GI_PATH>>

\* is_repo
IsRepo(dir) == dir \in repos

\* ------------------------------------------------------------------ rule file
\* rules.push(rule) when the line gave a rule
PushRule(rules, rule) == IF rule = None THEN rules ELSE Append(rules, rule[1])

\* the loop of GitIgnoreFile::new: the rules of the items read so far, or
\* None as soon as an item is an Err
RECURSIVE ReadRules(_, _, _)
ReadRules(items, ref_dir, rules) ==
    IF items = <<>> THEN Some(rules)
    ELSE IF Head(items) = ReadErr THEN None
    ELSE ReadRules(Tail(items), ref_dir, PushRule(rules, From(Head(items), ref_dir)))

\* the rules kept in file order
NotReversed(rules) == IF rules = None THEN None ELSE Some([rules |-> rules[1]])

\* rules.reverse(); Ok(GitIgnoreFile { rules })
Reversed(rules) == IF rules = None THEN None ELSE Some([rules |-> Reverse(rules[1])])

\* GitIgnoreFile::new on the content of the file
GitIgnoreFileNew(content, ref_dir) ==
    IF content = None THEN None
    ELSE Reversed(ReadRules(content[1], ref_dir, <<>>))

\* ------------------------------------------------------------------ chains
\* GitIgnoreChain::default
DefaultChain == [in_repo |-> FALSE, file_ids |-> <<>>]

\* a push that inserts in front
PushFront(chain, id) == [chain EXCEPT !.file_ids = <<id>> \o @]

\* GitIgnoreChain::push
Push(chain, id) == [chain EXCEPT !.file_ids = Append(@, id)]

\* what a chain construction works on: the chain being built and the arena,
\* with the ghost variables
Work(chain) == [chain |-> chain, files |-> files, origin |-> origin, reads |-> reads]

\* an unreadable file stored as a file without rules
AllocAlways(w, gif, file_path, ref_dir) ==
    [w EXCEPT
        !.files = Append(@, IF gif = None THEN [rules |-> <<>>] ELSE gif[1]),
        !.origin = Append(@, [file |-> file_path, ref_dir |-> ref_dir]),
        !.chain = Push(@, Len(w.files) + 1)]

\* an alloc that stores the file in front of the entries of the arena
AllocInFront(w, gif, file_path, ref_dir) ==
    IF gif = None THEN w
    ELSE [w EXCEPT
             !.files = <<gif[1]>> \o @,
             !.origin = <<[file |-> file_path, ref_dir |-> ref_dir]>> \o @,
             !.chain = Push(@, 1)]

\* chain.push(self.files.alloc(gif)) when the file was read
AllocAndPush(w, gif, file_path, ref_dir) ==
    IF gif = None THEN w
    ELSE [w EXCEPT
             !.files = Append(@, gif[1]),
             !.origin = Append(@, [file |-> file_path, ref_dir |-> ref_dir]),
             !.chain = Push(@, Len(w.files) + 1)]

\* `if let Ok(gif) = GitIgnoreFile::new(path, ref_dir) { chain.push(self.files.alloc(gif)) }`
LoadAndPush(w, file_path, ref_dir) ==
    AllocAndPush([w EXCEPT !.reads[file_path] = @ + 1],
                 GitIgnoreFileNew(fs[file_path], ref_dir), file_path, ref_dir)

\* `if let Some(gif) = GitIgnoreFile::global(dir) { chain.push(self.files.alloc(gif)) }`
LoadGlobalAndPush(w, repo_dir) ==
    IF GLOBAL_GI_PATH = None THEN w
    ELSE LoadAndPush(w, GLOBAL_GI_PATH[1], repo_dir)

\* the first half of an iteration of root_chain: the global file of a
\* repository root, then the .gitignore of dir
RootChainLoad(w, dir) ==
    LoadAndPush(IF IsRepo(dir) THEN LoadGlobalAndPush(w, dir) ELSE w,
                IgnoreFilePath(dir), dir)

\* a loop that goes on above a repository root, up to the filesystem root
RECURSIVE RootChainLoopNoStop(_, _)
RootChainLoopNoStop(w, dir) ==
    IF Parent(dir) # None
        THEN RootChainLoopNoStop(
                 RootChainLoad([w EXCEPT !.chain.in_repo = @ \/ IsRepo(dir)],
                               Parent(dir)[1]),
                 Parent(dir)[1])
    ELSE [w EXCEPT !.chain.in_repo = @ \/ IsRepo(dir)]

\* the loop of root_chain, w being the state after the loads of dir
RECURSIVE RootChainLoop(_, _)
RootChainLoop(w, dir) ==
    IF IsRepo(dir) THEN [w EXCEPT !.chain.in_repo = TRUE]
    ELSE IF Parent(dir) # None
        THEN RootChainLoop(RootChainLoad(w, Parent(dir)[1]), Parent(dir)[1])
    ELSE w

RootChain(dir) == RootChainLoop(RootChainLoad(Work(DefaultChain), dir), dir)

\* deeper_chain that always starts from the parent chain
DeeperStartNoReset(parent_chain, dir) == Work(parent_chain)

\* deeper_chain that builds the chain of the parent directory anew
DeeperStartRebuild(parent_chain, dir) ==
    IF IsRepo(dir)
        THEN [LoadGlobalAndPush(Work(DefaultChain), dir) EXCEPT !.chain.in_repo = TRUE]
        ELSE RootChain(Parent(dir)[1])

\* the chain deeper_chain starts from
DeeperStart(parent_chain, dir) ==
    IF IsRepo(dir)
        THEN [LoadGlobalAndPush(Work(DefaultChain), dir) EXCEPT !.chain.in_repo = TRUE]
        ELSE Work(parent_chain)

\* `if chain.in_repo { ... }` of deeper_chain
DeeperLoad(w, dir) ==
    IF w.chain.in_repo THEN LoadAndPush(w, IgnoreFilePath(dir), dir) ELSE w

DeeperChain(parent_chain, dir) == DeeperLoad(DeeperStart(parent_chain, dir), dir)

\* ------------------------------------------------------------------ accepts
RuleMatches(rule, path, filename) ==
    IF rule.filename
        THEN MatchesWith(rule.pattern, filename, rule.pattern_options)
        ELSE MatchesPathWith(rule.pattern, path, rule.pattern_options)

\* the inner loop without the test on directory-only rules
RECURSIVE ScanRulesNoSkip(_, _, _, _, _)
ScanRulesNoSkip(rules, r, path, filename, directory) ==
    IF r > Len(rules) THEN None
    ELSE IF RuleMatches(rules[r], path, filename) THEN Some(rules[r].ok)
    ELSE ScanRulesNoSkip(rules, r + 1, path, filename, directory)

\* the inner loop of accepts: the first rule from r on that is not skipped
\* and matches, as Some(rule.ok), or None
RECURSIVE ScanRules(_, _, _, _, _)
ScanRules(rules, r, path, filename, directory) ==
    IF r > Len(rules) THEN None
    ELSE IF rules[r].directory /\ ~directory
        THEN ScanRules(rules, r + 1, path, filename, directory)
    ELSE IF RuleMatches(rules[r], path, filename) THEN Some(rules[r].ok)
    ELSE ScanRules(rules, r + 1, path, filename, directory)

\* the outer loop of accepts: chain.file_ids.iter().rev(), from position k
\* down; v is the outcome of the rules of the file at position k
RECURSIVE ScanFiles(_, _, _, _, _, _)
FileOrNext(v, arena, file_ids, k, path, filename, directory) ==
    IF v # None THEN v
    ELSE ScanFiles(arena, file_ids, k - 1, path, filename, directory)

ScanFiles(arena, file_ids, k, path, filename, directory) ==
    IF k < 1 THEN None
    ELSE FileOrNext(ScanRules(arena[file_ids[k]].rules, 1, path, filename, directory),
                    arena, file_ids, k, path, filename, directory)

\* `return rule.ok` of the first match, `true` after the loops
Verdict(v) == IF v # None THEN v[1] ELSE TRUE

\* accepts without its first test
AcceptsWithoutRepoCheck(arena, chain, path, filename, directory) ==
    Verdict(ScanFiles(arena, chain.file_ids, Len(chain.file_ids),
                      path, filename, directory))

\* GitIgnorer::accepts
Accepts(arena, chain, path, filename, directory) ==
    IF ~chain.in_repo THEN TRUE
    ELSE Verdict(ScanFiles(arena, chain.file_ids, Len(chain.file_ids),
                           path, filename, directory))

\* ------------------------------------------------------------------ actions
NoCall == [op |-> "none", dir |-> <<>>, parent |-> DefaultChain, chain |-> DefaultChain,
           parent_dir |-> <<>>, before |-> 0, reads_before |-> [p \in FilePaths |-> 0]]

InitProgram ==
    /\ files = <<>>
    /\ origin = <<>>
    /\ reads = [p \in FilePaths |-> 0]
    /\ last = NoCall
    /\ query = None
    /\ ops = 0
    /\ returned = {}

Init ==
    /\ repos \in SUBSET Dirs
    /\ \E local \in [Dirs -> SampleFiles], global \in SampleGlobals :
          fs = [p \in FilePaths |->
                   IF p = GlobalIgnoreFile THEN global
                   ELSE local[SubSeq(p, 1, Len(p) - 1)]]
    /\ GLOBAL_GI_PATH \in {None, Some(GlobalIgnoreFile)}
    /\ GLOBAL_GI_PATH = None => fs[GlobalIgnoreFile] = None
    /\ InitProgram

\* ghost: a returned chain with the entries its handles designate in arena
Held(chain, arena) ==
    [chain |-> chain,
     entries |-> [i \in DOMAIN chain.file_ids |-> arena[chain.file_ids[i]]]]

Built(op, parent, parent_dir, dir, w) ==
    /\ files' = w.files
    /\ origin' = w.origin
    /\ reads' = w.reads
    /\ last' = [op |-> op, dir |-> dir, parent |-> parent, chain |-> w.chain,
                parent_dir |-> parent_dir, before |-> Len(files),
                reads_before |-> reads]
    /\ query' = None
    /\ ops' = ops + 1
    /\ returned' = returned \cup {Held(w.chain, w.files)}
    /\ UNCHANGED env

\* the walker asks for the chain of a starting directory
root_chain ==
    /\ ops < MaxOps
    /\ \E dir \in Dirs : Built("root_chain", DefaultChain, <<>>, dir, RootChain(dir))

\* the walker descends from the directory of a chain it holds into a child
deeper_chain ==
    /\ ops < MaxOps
    /\ last.op # "none"
    /\ \E from \in {"chain", "parent"}, dir \in Dirs :
          LET parent_chain == IF from = "chain" THEN last.chain ELSE last.parent
              parent_dir == IF from = "chain" THEN last.dir ELSE last.parent_dir
          IN /\ from = "parent" => last.op = "deeper_chain"
             /\ Parent(dir) = Some(parent_dir)
             /\ Built("deeper_chain", parent_chain, parent_dir, dir,
                      DeeperChain(parent_chain, dir))

\* the walker asks whether an entry of the directory of its chain is kept
accepts ==
    /\ last.op # "none"
    /\ \E name \in Names, directory \in BOOLEAN :
          LET path == Append(last.dir, name)
          IN query' = Some([path |-> path, filename |-> FileName(path),
                            directory |-> directory,
                            result |-> Accepts(files, last.chain, path, FileName(path),
                                               directory)])
    /\ UNCHANGED <<env, files, origin, reads, last, ops, returned>>

Next == root_chain \/ deeper_chain \/ accepts

\* the chain-level specification: every directory has one of the sample files
Spec == Init /\ [][Next]_vars

\* the rule files of at most MaxLines lines
LineFiles == UNION {[1..n -> Lines] : n \in 0..MaxLines}

\* the line-level specification: one directory, a repository root or below
\* the root repository, has a rule file of any lines; there is no other file
InitLines ==
    /\ \E dir \in Dirs, content \in LineFiles :
          /\ repos \in {{dir}, {<<>>}}
          /\ fs = [p \in FilePaths |->
                     IF p = IgnoreFilePath(dir) THEN Some(content) ELSE None]
    /\ GLOBAL_GI_PATH = None
    /\ InitProgram

SpecLines == InitLines /\ [][Next]_vars

\* ------------------------------------------------------------------ properties
IsPrefix(a, b) == Len(a) <= Len(b) /\ SubSeq(b, 1, Len(a)) = a
Range(f) == {f[i] : i \in DOMAIN f}

\* what reading the .gitignore of dir gives, and the global file for a root
LocalFile(dir) == GitIgnoreFileNew(fs[IgnoreFilePath(dir)], dir)
GlobalFile(dir) ==
    IF GLOBAL_GI_PATH = None THEN None
    ELSE GitIgnoreFileNew(fs[GLOBAL_GI_PATH[1]], dir)

\* the verdict the rules of one file give on a query: None, Some(ok)
FileVerdict(file, path, directory) ==
    ScanRules(file.rules, 1, path, FileName(path), directory)

\* the handles of a chain that the last construction allocated
NewIds(chain) == {id \in Range(chain.file_ids) : id > last.before}

\* the repository roots at or above dir
RootsAbove(dir) == {r \in repos : IsPrefix(r, dir)}

\* C1: accepts on a chain with in_repo = FALSE returns TRUE whatever the path,
\* the file name and the directory flag, whatever the files of the chain hold.
C1_OutsideRepoAcceptsAll ==
    ~last.chain.in_repo =>
        /\ \A path \in Paths, name \in Names, directory \in BOOLEAN :
              Accepts(files, last.chain, path, <<name>>, directory)
        /\ query # None => query[1].result

\* C1 witness: accepts has answered TRUE on a chain outside any repository one
\* of whose files has a non-negated rule matching the path.
C1_Witness ==
    /\ query # None
    /\ ~last.chain.in_repo
    /\ query[1].result
    /\ \E id \in Range(last.chain.file_ids) :
          FileVerdict(files[id], query[1].path, query[1].directory) = Some(FALSE)

\* the handles deeper_chain gives for a repository root, as origins
ResetOrigins(dir) ==
    (IF GlobalFile(dir) = None THEN <<>>
     ELSE <<[file |-> GLOBAL_GI_PATH[1], ref_dir |-> dir]>>)
    \o (IF LocalFile(dir) = None THEN <<>>
        ELSE <<[file |-> IgnoreFilePath(dir), ref_dir |-> dir]>>)

\* C2: deeper_chain into a repository root gives a chain with in_repo = TRUE
\* that holds no handle of the parent chain: only the global file parsed for
\* dir, when there is one, then the rule file of dir, when there is one.
C2_RepoRootResets ==
    (last.op = "deeper_chain" /\ IsRepo(last.dir)) =>
        /\ last.chain.in_repo
        /\ Range(last.chain.file_ids) \cap Range(last.parent.file_ids) = {}
        /\ \A i \in DOMAIN last.chain.file_ids : last.chain.file_ids[i] > last.before
        /\ [i \in DOMAIN last.chain.file_ids |-> origin[last.chain.file_ids[i]]]
              = ResetOrigins(last.dir)

\* C2 witness: deeper_chain entered a nested repository root from a parent
\* chain inside a repository that holds handles, and loaded both its files.
C2_Witness ==
    /\ last.op = "deeper_chain"
    /\ IsRepo(last.dir)
    /\ last.parent.in_repo
    /\ Len(last.parent.file_ids) >= 2
    /\ Len(last.chain.file_ids) = 2

\* C3: after deeper_chain from a parent chain inside a repository into a
\* directory whose rule file was read, accepts gives the verdict of that file
\* on every query one of its applicable rules matches.
C3_ChildFileDecides ==
    (last.op = "deeper_chain" /\ last.parent.in_repo) =>
        LET local == LocalFile(last.dir)
        IN local # None =>
            \A path \in Paths, directory \in BOOLEAN :
                FileVerdict(local[1], path, directory) # None =>
                    Accepts(files, last.chain, path, FileName(path), directory)
                        = FileVerdict(local[1], path, directory)[1]

\* C3 witness: accepts has answered on a deeper chain where the file of the
\* directory decides against what the inherited files alone would answer, the
\* two sides listing different numbers of rules.
C3_Witness ==
    /\ last.op = "deeper_chain"
    /\ last.parent.in_repo
    /\ ~IsRepo(last.dir)
    /\ LocalFile(last.dir) # None
    /\ query # None
    /\ FileVerdict(LocalFile(last.dir)[1], query[1].path, query[1].directory)
          = Some(query[1].result)
    /\ Accepts(files, last.parent, query[1].path, query[1].filename, query[1].directory)
          # query[1].result
    /\ \E id \in Range(last.parent.file_ids) :
          Len(files[id].rules) # Len(LocalFile(last.dir)[1].rules)

\* what GitIgnoreRule::from makes of each line of a file, in file order
ParsedLines(lines, ref_dir) == [j \in DOMAIN lines |-> From(lines[j], ref_dir)]

\* the lines that give a rule which applies to the query and matches it
MatchingLines(parsed, path, directory) ==
    {j \in DOMAIN parsed :
        /\ parsed[j] # None
        /\ ~(parsed[j][1].directory /\ ~directory)
        /\ RuleMatches(parsed[j][1], path, FileName(path))}

\* the verdict of the last matching line of the file, None without one
LastLineVerdict(parsed, path, directory) ==
    LET m == MatchingLines(parsed, path, directory)
    IN IF m = {} THEN None ELSE Some(parsed[Max(m)][1].ok)

\* the lines the arena entry id was parsed from
SourceLines(id) == ParsedLines(fs[origin[id].file][1], origin[id].ref_dir)

\* C4: when a chain construction returns, the verdict each stored file gives
\* is the one of the last line of its source that applies and matches; and it
\* is the answer of accepts when the file is the one the chain consults first.
C4_LastLineWins ==
    /\ query = None =>
        \A id \in DOMAIN files :
          LET parsed == SourceLines(id)
          IN \A path \in Paths, directory \in BOOLEAN :
                FileVerdict(files[id], path, directory)
                    = LastLineVerdict(parsed, path, directory)
    /\ (query # None /\ last.chain.in_repo /\ last.chain.file_ids # <<>>) =>
          LET v == LastLineVerdict(
                       SourceLines(last.chain.file_ids[Len(last.chain.file_ids)]),
                       query[1].path, query[1].directory)
          IN v # None => query[1].result = v[1]

\* C4 witness: accepts kept an entry on a chain whose file lists an ignoring
\* line and, after it, a negated line, both matching the query.
C4_Witness ==
    /\ query # None
    /\ last.chain.in_repo
    /\ Len(last.chain.file_ids) = 1
    /\ query[1].result
    /\ LET parsed == SourceLines(last.chain.file_ids[1])
           m == MatchingLines(parsed, query[1].path, query[1].directory)
       IN \E j1 \in m, j2 \in m :
             /\ j1 < j2
             /\ j2 = Max(m)
             /\ ~parsed[j1][1].ok
             /\ parsed[j2][1].ok

\* the arena entries parsed from the .gitignore of dir
Entries(dir) == {i \in DOMAIN origin : origin[i].file = IgnoreFilePath(dir)}
NewEntries(dir) == {i \in Entries(dir) : i > last.before}

C6_DeepestScopeLast ==
    /\ last.chain.in_repo =>
        \A i \in DOMAIN last.chain.file_ids, j \in DOMAIN last.chain.file_ids :
          i < j => Len(origin[last.chain.file_ids[i]].ref_dir)
                      <= Len(origin[last.chain.file_ids[j]].ref_dir)
    /\ (last.op = "root_chain" /\ last.chain.in_repo /\ ~IsRepo(last.dir)) =>
          LET local == LocalFile(last.dir)
          IN local # None =>
              \A path \in Paths, directory \in BOOLEAN :
                  FileVerdict(local[1], path, directory) # None =>
                      Accepts(files, last.chain, path, FileName(path), directory)
                          = FileVerdict(local[1], path, directory)[1]

\* a line with a pattern and a trailing "/"
TrailingSlash(line) ==
    /\ line[1] # "#"
    /\ \E n \in 2..Len(line) : line[n] = "/" /\ AllSpace(Drop(line, n))

\* the arena entry id as it would be without the directory-only lines
WithoutDirectoryLines(id) ==
    GitIgnoreFileNew(
        Some(SelectSeq(fs[origin[id].file][1], LAMBDA line : ~TrailingSlash(line))),
        origin[id].ref_dir)[1]

\* C7: when a chain construction returns, each stored file gives on a query
\* with is_directory = FALSE the verdict it would give without its lines with
\* a trailing "/"; and accepts answers such a query as if those lines were not
\* in the rule files.
C7_DirectoryOnlySkipsFiles ==
    /\ query = None =>
        \A id \in DOMAIN files :
          LET without == WithoutDirectoryLines(id)
          IN \A path \in Paths :
                FileVerdict(files[id], path, FALSE) = FileVerdict(without, path, FALSE)
    /\ (query # None /\ ~query[1].directory) =>
          query[1].result
              = Accepts([id \in DOMAIN files |-> WithoutDirectoryLines(id)],
                        last.chain, query[1].path, query[1].filename, FALSE)

\* C7 witness: a chain whose only rule comes from the line "a/" has accepted
\* the plain file a.
C7_Witness ==
    /\ query # None
    /\ ~query[1].directory
    /\ query[1].filename = <<"a">>
    /\ query[1].result
    /\ last.chain.in_repo
    /\ Len(last.chain.file_ids) = 1
    /\ fs[origin[last.chain.file_ids[1]].file] = Some(<<<<"a", "/">>>>)
    /\ Len(files[last.chain.file_ids[1]].rules) = 1

\* C8 as stated: the rule of the line "/a" parsed with reference directory D
\* matches the path D/a and no other path.
C8_AnchoredAtRefDir ==
    \A id \in DOMAIN files :
        fs[origin[id].file] = Some(<<<<"/", "a">>>>) =>
            \A path \in Paths, directory \in BOOLEAN :
                (FileVerdict(files[id], path, directory) = Some(FALSE))
                    <=> (path = Append(origin[id].ref_dir, "a"))

\* the directories root_chain(start) visits: start and its ancestors up to
\* the nearest repository root
Ascent(start) ==
    {d \in Dirs : IsPrefix(d, start) /\ \A r \in RootsAbove(start) : Len(r) <= Len(d)}

\* the number of files a construction finds readable
ReadableCount ==
    IF last.op = "root_chain"
        THEN Cardinality({d \in Ascent(last.dir) : LocalFile(d) # None})
             + Cardinality({d \in Ascent(last.dir) \cap repos : GlobalFile(d) # None})
    ELSE (IF IsRepo(last.dir) /\ GlobalFile(last.dir) # None THEN 1 ELSE 0)
         + (IF last.chain.in_repo /\ LocalFile(last.dir) # None THEN 1 ELSE 0)

\* C9: a chain construction adds an arena entry and a handle for each file it
\* could read and nothing for a file it could not open or read; deeper_chain
\* from a parent inside a repository into a directory that is no repository
\* root and has no readable rule file returns the parent chain.
C9_UnreadableContributesNothing ==
    last.op # "none" =>
        /\ \A id \in (last.before + 1)..Len(files) :
              GitIgnoreFileNew(fs[origin[id].file], origin[id].ref_dir) = Some(files[id])
        /\ NewIds(last.chain) = (last.before + 1)..Len(files)
        /\ Len(files) - last.before = ReadableCount
        /\ (/\ last.op = "deeper_chain"
            /\ last.parent.in_repo
            /\ ~IsRepo(last.dir)
            /\ LocalFile(last.dir) = None) =>
                (last.chain = last.parent /\ Len(files) = last.before)

\* C9 witness: deeper_chain from a chain that holds handles into a directory
\* whose rule file opens but fails to be read has returned the parent chain.
C9_Witness ==
    /\ last.op = "deeper_chain"
    /\ last.parent.in_repo
    /\ last.parent.file_ids # <<>>
    /\ ~IsRepo(last.dir)
    /\ fs[IgnoreFilePath(last.dir)] # None
    /\ LocalFile(last.dir) = None
    /\ last.chain = last.parent

NearestRoot(start) ==
    CHOOSE r \in RootsAbove(start) : \A q \in RootsAbove(start) : Len(q) <= Len(r)

\* C10: the chain of root_chain(start) has in_repo = TRUE exactly when start
\* or an ancestor is a repository root; then no file is read and no handle
\* held for a directory strictly above the nearest such root; otherwise the
\* ascent reads up to the filesystem root.
C10_StopsAtNearestRoot ==
    last.op = "root_chain" =>
        /\ last.chain.in_repo = (RootsAbove(last.dir) # {})
        /\ RootsAbove(last.dir) # {} =>
              /\ \A id \in Range(last.chain.file_ids) :
                    IsPrefix(NearestRoot(last.dir), origin[id].ref_dir)
              /\ \A d \in Dirs :
                    Len(d) < Len(NearestRoot(last.dir)) =>
                        reads[IgnoreFilePath(d)] = last.reads_before[IgnoreFilePath(d)]
        /\ RootsAbove(last.dir) = {} =>
              reads[IgnoreFilePath(<<>>)] = last.reads_before[IgnoreFilePath(<<>>)] + 1

\* C10 witness: root_chain started strictly below a repository root that lies
\* below a directory with a readable rule file, itself a repository root.
C10_Witness ==
    /\ last.op = "root_chain"
    /\ last.chain.in_repo
    /\ ~IsRepo(last.dir)
    /\ NearestRoot(last.dir) # <<>>
    /\ IsRepo(<<>>)
    /\ LocalFile(<<>>) # None
    /\ Len(last.chain.file_ids) >= 2

\* C11: the arena only grows.  Every handle of every chain a construction has
\* returned designates an entry of the arena, and that entry is the one the
\* handle designated when the chain was returned; every step keeps the entries
\* of the arena as they are and at most appends to them, and a step that is no
\* chain construction (accepts) leaves the arena, the chains and the read
\* counts unchanged.
C11_ArenaOnlyGrows ==
    /\ [](\A r \in returned :
            \A i \in DOMAIN r.chain.file_ids :
                /\ r.chain.file_ids[i] \in DOMAIN files
                /\ files[r.chain.file_ids[i]] = r.entries[i])
    /\ [][/\ IsPrefix(files, files')
          /\ IsPrefix(origin, origin')
          /\ ops' = ops =>
                (files' = files /\ origin' = origin /\ reads' = reads
                    /\ last' = last /\ returned' = returned)]_vars

\* C11 witness: accepts has answered on the second chain built, after the
\* second construction appended entries behind those an earlier chain, which
\* is not a prefix of the second, holds handles on.
C11_Witness ==
    /\ ops = 2
    /\ query # None
    /\ last.chain.in_repo
    /\ Len(files) > last.before
    /\ \E r \in returned :
          /\ r.chain.file_ids # <<>>
          /\ ~IsPrefix(r.chain.file_ids, last.chain.file_ids)
          /\ \A i \in DOMAIN r.chain.file_ids : r.chain.file_ids[i] <= last.before

====
